---- MODULE Spec2Model ----
(***************************************************************************)
(* The trivia API of flaskr/__init__.py as a state machine.  The state is  *)
(* the Record Store (the questions in store order, the id counter, the     *)
(* categories), the request being served, the response sent, and the       *)
(* locals of the one handler that loops, get_quiz_question.  Every other   *)
(* handler is a single step.  Requests are served one at a time.           *)
(***************************************************************************)
EXTENDS Integers, Sequences, FiniteSets, TLC

VARIABLES
    store,            \* rows of Question.query.all(), in store order
    next_id,          \* the id the store assigns to the next inserted row
    categories,       \* rows of Category.query.all(): id -> type
    store_ok,         \* FALSE while the store rejects writes (commit raises)
    req,              \* the request being served / last served
    resp,             \* the response last sent
    pc,               \* "idle", or "while" inside get_quiz_question's loop
    questions,        \* get_quiz_question: the candidate list
    total_questions,  \* get_quiz_question: len(questions)
    next_question     \* get_quiz_question: the question last drawn

vars == <<store, next_id, categories, store_ok, req, resp, pc,
          questions, total_questions, next_question>>

---------------------------------------------------------------------------
(* Bounds of the model. *)

MaxId == 2          \* ids the store hands out (caps the autoincrement)
MaxPage == 3        \* page numbers requested
MaxCount == 21      \* rows of the pre-filled store of the pagination runs
MaxBank == 2        \* rows of the pre-filled store of the quiz runs
MaxPrev == 3        \* length of previous_questions

---------------------------------------------------------------------------
(* Python / JSON values: None, str (a sequence of characters), int, and    *)
(* the dict and list of the quiz body.                                     *)

None == <<"None">>
Str(s) == <<"str", s>>
Num(n) == <<"int", n>>
Dict(id) == <<"dict", id>>
List(l) == <<"list", l>>
EmptyStr == Str(<<>>)

Min(a, b) == IF a < b THEN a ELSE b
Max(a, b) == IF a > b THEN a ELSE b

\* seq[start:end] as Python computes it (negative indices count from the end,
\* both are clamped to the length).
PySlice(seq, start, end) ==
    LET n == Len(seq)
        s == IF start < 0 THEN Max(n + start, 0) ELSE Min(start, n)
        e == IF end < 0 THEN Max(n + end, 0) ELSE Min(end, n)
    IN  IF e <= s THEN <<>> ELSE [i \in 1..(e - s) |-> seq[s + i]]

\* The start of a page numbered from 0: start = page * 10
PageStartFromZero(page) == page * 10

\* start = (page - 1) * 10
PageStart(page) == (page - 1) * 10

\* end = start + 10
PageEnd(page) == PageStart(page) + 10

\* formatted_questions[start:end]
CurrentQuestions(formatted, page) == PySlice(formatted, PageStart(page), PageEnd(page))

Ids(seq) == {seq[i].id : i \in 1..Len(seq)}

---------------------------------------------------------------------------
(* Requests and responses. *)

NoBody == [none |-> TRUE]
NoQuestion == [id |-> 0, question |-> None, answer |-> None,
               category |-> None, difficulty |-> None]

Request(op, id, page, body) == [op |-> op, id |-> id, page |-> page, body |-> body]

\* A response: the status and the keys of the JSON body; a key that is not
\* in `keys` holds the blank value.
Blank == [status |-> 0, keys |-> {}, success |-> FALSE, error |-> 0,
          message |-> "", questions |-> <<>>, total_questions |-> 0,
          current_category |-> "null", categories |-> <<>>,
          created |-> 0, deleted |-> 0, question |-> NoQuestion]

\* The error handlers: abort(code) answers with the envelope of `code`.
ErrorMessage(code) ==
    CASE code = 400 -> "Bad Request"
      [] code = 404 -> "Resource Not Found"
      [] code = 405 -> "Method Not Allowed"
      [] code = 422 -> "Unprocessable Entity"
      [] OTHER -> "Internal Server Error"

Abort(code) == [Blank EXCEPT !.status = code,
                             !.keys = {"success", "error", "message"},
                             !.error = code,
                             !.message = ErrorMessage(code)]

---------------------------------------------------------------------------
(* The Record Store (models.py): reads, insert, delete. *)

\* question.format(): the serialised question
Format(q) == [id |-> q.id, question |-> q.question, answer |-> q.answer,
              category |-> q.category, difficulty |-> q.difficulty]

\* [question.format() for question in questions]
FormatAll(rows) == [i \in 1..Len(rows) |-> Format(rows[i])]

\* Question.query.filter_by(category=category_id).all()
FilterByCategory(rows, category_id) ==
    SelectSeq(rows, LAMBDA q : q.category = Num(category_id))

\* Question(...).insert(): the row gets the next id and goes last
Insert(rows, id, body) ==
    Append(rows, [id |-> id, question |-> body.question, answer |-> body.answer,
                  category |-> body.category, difficulty |-> body.difficulty])

\* question.delete(): the row with that id goes, the rest keep their order
Delete(rows, id) == SelectSeq(rows, LAMBDA q : q.id # id)

---------------------------------------------------------------------------
(* Question.question.ilike('%{}%'.format(search_term)) *)

Lower(c) ==
    CASE c = "A" -> "a"
      [] c = "B" -> "b"
      [] c = "N" -> "n"
      [] OTHER -> c

LowerAll(s) == [i \in 1..Len(s) |-> Lower(s[i])]

\* '{}'.format(v): str(v)
FormatValue(v) ==
    IF v = None THEN <<"N", "o", "n", "e">> ELSE v[2]

\* '%{}%'.format(search_term)
SearchPattern(search_term) == <<"%">> \o FormatValue(search_term) \o <<"%">>

\* s LIKE p: % matches any run of characters, _ any one character
RECURSIVE Like(_, _)
Like(s, p) ==
    IF p = <<>> THEN s = <<>>
    ELSE IF Head(p) = "%"
         THEN Like(s, Tail(p)) \/ (s # <<>> /\ Like(Tail(s), p))
    ELSE /\ s # <<>>
         /\ (Head(p) = "_" \/ Head(s) = Head(p))
         /\ Like(Tail(s), Tail(p))

\* column ILIKE pattern: case-insensitive LIKE; a NULL column matches nothing
ILike(column, pattern) ==
    /\ column # None
    /\ Like(LowerAll(column[2]), LowerAll(pattern))

---------------------------------------------------------------------------
(* The inputs the requests are drawn from. *)

Pages == 0..MaxPage
ListPages == {1, 2}
QuestionIds == 1..(MaxId + 1)
CategoryIds == {1, 2, 3}
Seeded == <<"Science", "Art">>

Fields == {"question", "answer", "category", "difficulty"}
Complete1 == [question |-> Str(<<"A", "b">>), answer |-> Str(<<"x">>),
              category |-> Num(1), difficulty |-> Num(3)]
Complete2 == [question |-> Str(<<"b">>), answer |-> Str(<<"x">>),
              category |-> Num(2), difficulty |-> Num(3)]
\* a complete body, or one with a field missing (body.get gives None) or ''
AddBodies ==
    {Complete1, Complete2}
        \cup {[Complete1 EXCEPT ![f] = v] : f \in Fields, v \in {None, EmptyStr}}

SearchTerms == {None, EmptyStr, Str(<<"a">>), Str(<<"B">>), Str(<<"x">>),
                Str(<<"%">>), Str(<<"_">>)}

---------------------------------------------------------------------------
(* The handlers that answer in one step. *)

QuizLocals == <<pc, questions, total_questions, next_question>>

\* GET /categories
get_categories ==
    /\ pc = "idle"
    /\ req' = Request("get_categories", 0, 0, NoBody)
    /\ resp' = IF DOMAIN categories = {}
               THEN Abort(404)
               ELSE [Blank EXCEPT !.status = 200,
                                  !.keys = {"success", "categories"},
                                  !.success = TRUE,
                                  !.categories = categories]
    /\ UNCHANGED <<store, next_id, categories, store_ok, QuizLocals>>

\* GET /questions?page=N
get_questions(page) ==
    /\ pc = "idle"
    /\ req' = Request("get_questions", 0, page, NoBody)
    /\ LET formatted_questions == FormatAll(store)
           current_questions == CurrentQuestions(formatted_questions, page)
       IN  resp' = IF Len(current_questions) = 0 THEN Abort(404)
                   ELSE IF DOMAIN categories = {} THEN Abort(404)
                   ELSE [Blank EXCEPT
                           !.status = 200,
                           !.keys = {"success", "questions", "total_questions",
                                     "current_category", "categories"},
                           !.success = TRUE,
                           !.questions = current_questions,
                           !.total_questions = Len(formatted_questions),
                           !.current_category = "null",
                           !.categories = categories]
    /\ UNCHANGED <<store, next_id, categories, store_ok, QuizLocals>>

\* What the try block of delete_question raises: abort(404) raises NotFound
\* inside the try, question.delete() raises when the store fails.
DeleteRaises(question_id) ==
    IF question_id \notin Ids(store) THEN "NotFound"
    ELSE IF ~store_ok THEN "StoreError"
    ELSE "nothing"

\* The handler without its call of question.delete().
StoreWithoutDelete(question_id) == store

\* question.delete(), as the handler calls it on the row it fetched
StoreAfterDelete(question_id) == Delete(store, question_id)

\* DELETE /questions/<question_id>: the bare except answers 500 to whatever
\* the try block raised.
delete_question(question_id) ==
    /\ pc = "idle"
    /\ req' = Request("delete_question", question_id, 0, NoBody)
    /\ IF DeleteRaises(question_id) # "nothing"
       THEN /\ resp' = Abort(500)
            /\ UNCHANGED store
       ELSE /\ store' = StoreAfterDelete(question_id)
            /\ resp' = [Blank EXCEPT !.status = 200,
                                      !.keys = {"success", "deleted", "message"},
                                      !.success = TRUE,
                                      !.deleted = question_id,
                                      !.message = "Deleted Successfully"]
    /\ UNCHANGED <<next_id, categories, store_ok, QuizLocals>>

\* question == '' or answer == '' or category == '' or difficulty == ''
AnyFieldEmpty(body) ==
    \/ body.question = EmptyStr
    \/ body.answer = EmptyStr
    \/ body.category = EmptyStr
    \/ body.difficulty = EmptyStr

\* POST /questions
add_new_question(body) ==
    /\ pc = "idle"
    /\ req' = Request("add_new_question", 0, 0, body)
    /\ IF AnyFieldEmpty(body)
       THEN /\ resp' = Abort(400)
            /\ UNCHANGED <<store, next_id>>
       ELSE IF ~store_ok
       THEN /\ resp' = Abort(422)
            /\ UNCHANGED <<store, next_id>>
       ELSE /\ next_id <= MaxId
            /\ store' = Insert(store, next_id, body)
            /\ next_id' = next_id + 1
            /\ resp' = [Blank EXCEPT !.status = 201,
                                      !.keys = {"success", "created", "message"},
                                      !.success = TRUE,
                                      !.created = next_id,
                                      !.message = "Created Successfully"]
    /\ UNCHANGED <<categories, store_ok, QuizLocals>>

\* Question.query.filter(Question.question.ilike(...)).all()
SearchResults(rows, search_term) ==
    SelectSeq(rows, LAMBDA q : ILike(q.question, SearchPattern(search_term)))

\* POST /questions/search
search_for_question(search_term) ==
    /\ pc = "idle"
    /\ req' = Request("search_for_question", 0, 0, [searchTerm |-> search_term])
    /\ LET search_results == SearchResults(store, search_term)
       IN  resp' = IF search_term = EmptyStr THEN Abort(400)
                   ELSE IF Len(search_results) = 0 THEN Abort(404)
                   ELSE [Blank EXCEPT
                           !.status = 200,
                           !.keys = {"success", "questions", "message"},
                           !.success = TRUE,
                           !.questions = FormatAll(search_results),
                           !.message = "Questions Found Successful"]
    /\ UNCHANGED <<store, next_id, categories, store_ok, QuizLocals>>

\* GET /categories/<category_id>/questions?page=N
get_questions_by_category(category_id, page) ==
    /\ pc = "idle"
    /\ req' = Request("get_questions_by_category", category_id, page, NoBody)
    /\ LET formatted_questions == FormatAll(FilterByCategory(store, category_id))
           current_questions == CurrentQuestions(formatted_questions, page)
       IN  resp' = IF category_id \notin DOMAIN categories THEN Abort(404)
                   ELSE [Blank EXCEPT
                           !.status = 200,
                           !.keys = {"success", "questions", "total_questions",
                                     "current_category"},
                           !.success = TRUE,
                           !.questions = current_questions,
                           !.total_questions = Len(store),
                           !.current_category = categories[category_id]]
    /\ UNCHANGED <<store, next_id, categories, store_ok, QuizLocals>>

\* The store starts or stops rejecting writes.
StoreFault ==
    /\ pc = "idle"
    /\ store_ok' = ~store_ok
    /\ UNCHANGED <<store, next_id, categories, req, resp, QuizLocals>>

---------------------------------------------------------------------------
(* The service from an empty question table. *)

NoRequest == Request("none", 0, 0, NoBody)

Init ==
    /\ store = <<>>
    /\ next_id = 1
    /\ categories \in {<<>>, Seeded}
    /\ store_ok = TRUE
    /\ req = NoRequest
    /\ resp = Blank
    /\ pc = "idle"
    /\ questions = <<>>
    /\ total_questions = 0
    /\ next_question = NoQuestion

Next ==
    \/ get_categories
    \/ \E page \in ListPages : get_questions(page)
    \/ \E question_id \in QuestionIds : delete_question(question_id)
    \/ \E body \in AddBodies : add_new_question(body)
    \/ \E search_term \in SearchTerms : search_for_question(search_term)
    \/ \E category_id \in CategoryIds, page \in ListPages :
            get_questions_by_category(category_id, page)
    \/ StoreFault

Spec == Init /\ [][Next]_vars

---------------------------------------------------------------------------
(* POST /quizzes: get_quiz_question, one step per draw. *)

\* The lists over S of length at most n, in non-decreasing order: the handler
\* reads a list only through `in` and len().
BoundedSeqs(S, n) ==
    {l \in UNION {[1..k -> S] : k \in 0..n} :
        \A i \in 1..(Len(l) - 1) : l[i] <= l[i + 1]}
Range(f) == {f[i] : i \in DOMAIN f}

QuizCategoryIds == {0, 1, 2}
PrevIds == 1..(MaxBank + 1)
QuizBodies ==
    [quiz_category : {None} \cup {Dict(id) : id \in QuizCategoryIds},
     previous_questions : {None} \cup {List(l) : l \in BoundedSeqs(PrevIds, MaxPrev)}]

\* random.randint(a, b): the values it can return; none when a > b, where
\* it raises ValueError
RandInt(a, b) == a..b

\* questions = Question.query.all() if category.get('id') == 0, else the
\* questions of that category
Candidates(rows, category_id) ==
    IF category_id = 0 THEN rows ELSE FilterByCategory(rows, category_id)

\* The loop condition that looks at the question asked last only:
\* next_question.id == prev_questions[-1]
WhileConditionLastOnly(question, prev_questions) ==
    prev_questions # <<>> /\ question.id = prev_questions[Len(prev_questions)]

\* next_question.id in prev_questions
WhileCondition(question, prev_questions) == question.id \in Range(prev_questions)

\* Lines 300-316: the body is checked, the candidates are read and the first
\* question is drawn.  With no candidate randint(0, -1) raises ValueError,
\* which nothing catches: the response is the 500 envelope.
get_quiz_question(body) ==
    /\ pc = "idle"
    /\ req' = Request("get_quiz_question", 0, 0, body)
    /\ IF body.quiz_category = None \/ body.previous_questions = None
       THEN /\ resp' = Abort(400)
            /\ UNCHANGED QuizLocals
       ELSE LET found == Candidates(store, body.quiz_category[2])
            IN  /\ questions' = found
                /\ total_questions' = Len(found)
                /\ IF RandInt(0, Len(found) - 1) = {}
                   THEN /\ resp' = Abort(500)
                        /\ UNCHANGED <<pc, next_question>>
                   ELSE /\ \E k \in RandInt(0, Len(found) - 1) :
                               next_question' = found[k + 1]
                        /\ resp' = Blank
                        /\ pc' = "while"
    /\ UNCHANGED <<store, next_id, categories, store_ok>>

\* Lines 318-323: the loop body.  The question is drawn again, with index k,
\* and then the lengths are compared.
QuizRedraw(k) ==
    /\ pc = "while"
    /\ WhileCondition(next_question, req.body.previous_questions[2])
    /\ k \in RandInt(0, Len(questions) - 1)
    /\ next_question' = questions[k + 1]
    /\ IF Len(req.body.previous_questions[2]) = total_questions
       THEN /\ resp' = [Blank EXCEPT !.status = 200,
                                      !.keys = {"success"},
                                      !.success = TRUE]
            /\ pc' = "idle"
       ELSE UNCHANGED <<resp, pc>>
    /\ UNCHANGED <<store, next_id, categories, store_ok, req,
                   questions, total_questions>>

\* Lines 325-328: the loop condition is false and the question is returned.
QuizReturn ==
    /\ pc = "while"
    /\ ~WhileCondition(next_question, req.body.previous_questions[2])
    /\ resp' = [Blank EXCEPT !.status = 200,
                             !.keys = {"success", "question"},
                             !.success = TRUE,
                             !.question = Format(next_question)]
    /\ pc' = "idle"
    /\ UNCHANGED <<store, next_id, categories, store_ok, req,
                   questions, total_questions, next_question>>

\* A question table of n complete rows with ids 1..n.
BankRow(id, category_id) ==
    [id |-> id, question |-> Str(<<"A", "b">>), answer |-> Str(<<"x">>),
     category |-> Num(category_id), difficulty |-> Num(3)]

BanksOfLength(n) == {[i \in 1..n |-> BankRow(i, c[i])] : c \in [1..n -> {1, 2}]}

InitQuiz ==
    /\ store \in UNION {BanksOfLength(n) : n \in 0..MaxBank}
    /\ next_id = Len(store) + 1
    /\ categories = Seeded
    /\ store_ok = TRUE
    /\ req = NoRequest
    /\ resp = Blank
    /\ pc = "idle"
    /\ questions = <<>>
    /\ total_questions = 0
    /\ next_question = NoQuestion

NextQuiz ==
    \/ \E body \in QuizBodies : get_quiz_question(body)
    \/ \E k \in 0..(MaxBank - 1) : QuizRedraw(k)
    \/ QuizReturn

SpecQuiz == InitQuiz /\ [][NextQuiz]_vars

\* The handler runs on until it returns, and a random index that can be
\* drawn again and again is drawn in the end.
FairSpecQuiz ==
    /\ InitQuiz
    /\ [][NextQuiz]_vars
    /\ \A k \in 0..(MaxBank - 1) : WF_vars(QuizRedraw(k))
    /\ WF_vars(QuizReturn)

---------------------------------------------------------------------------
(* The two paginated listings over a table of up to MaxCount rows. *)

PageRow(id) == BankRow(id, 1 + (id % 2))

InitPage ==
    /\ \E n \in 0..MaxCount : store = [i \in 1..n |-> PageRow(i)]
    /\ next_id = Len(store) + 1
    /\ categories = Seeded
    /\ store_ok = TRUE
    /\ req = NoRequest
    /\ resp = Blank
    /\ pc = "idle"
    /\ questions = <<>>
    /\ total_questions = 0
    /\ next_question = NoQuestion

NextPage ==
    \/ \E page \in Pages : get_questions(page)
    \/ \E category_id \in CategoryIds, page \in Pages :
            get_questions_by_category(category_id, page)

SpecPage == InitPage /\ [][NextPage]_vars

---------------------------------------------------------------------------
(* The properties of POST /quizzes. *)

IsQuizBody(body) == body.quiz_category # None /\ body.previous_questions # None

\* The quiz request that is being served, or was served last, had a body
\* that passed the checks of lines 301-307.
QuizServed == req.op = "get_quiz_question" /\ IsQuizBody(req.body)

\* The rows of the store that are candidates of the request: all of them for
\* category id 0, else those of the category.
IsCandidate(q) ==
    \/ req.body.quiz_category[2] = 0
    \/ q.category = Num(req.body.quiz_category[2])

CandidateIds == {store[i].id : i \in {j \in 1..Len(store) : IsCandidate(store[j])}}

Asked == Range(req.body.previous_questions[2])

Exhausted == resp.status = 200 /\ resp.keys = {"success"}

\* Every candidate of the request has been asked.
AllAsked == CandidateIds # {} /\ CandidateIds \subseteq Asked

\* A step of the handler that ends it with the exhaustion response.
ReturnsExhausted == NextQuiz /\ pc' = "idle" /\ resp'.status = 200 /\ resp'.keys = {"success"}

\* C1: with a non-empty candidate set whose ids are all in previous_questions
\* (whatever else the list holds, whatever its length) the handler terminates
\* with the exhaustion response {success: true}: in its loop, where every
\* draw is an asked question, the draw that ends it with that response is
\* always possible, so it never loops forever.
C1_TerminatesExhausted ==
    (QuizServed /\ pc = "while" /\ AllAsked) => ENABLED ReturnsExhausted

\* C1, as a property of the runs in which the handler keeps drawing: the loop
\* over asked candidates leads to the exhaustion response.
C1_EventuallyExhausted ==
    (QuizServed /\ pc = "while" /\ AllAsked) ~> (pc = "idle" /\ Exhausted)

\* C2: a response that carries a 'question' carries one question of the
\* candidate set (all questions for category id 0, else those of the
\* category) whose id is not in previous_questions; with one candidate and
\* nothing asked it is that candidate.
C2_QuestionIsUnseenCandidate ==
    (QuizServed /\ pc = "idle" /\ "question" \in resp.keys) =>
        /\ resp.status = 200
        /\ \E i \in 1..Len(store) :
              /\ resp.question = Format(store[i])
              /\ IsCandidate(store[i])
        /\ resp.question.id \notin Asked
        /\ (Cardinality(CandidateIds) = 1 /\ Asked = {}
                => resp.question.id \in CandidateIds)

\* A question of category 2 was returned although others had been asked.
C2_Witness ==
    /\ QuizServed
    /\ pc = "idle"
    /\ "question" \in resp.keys
    /\ req.body.quiz_category[2] = 2
    /\ Asked # {}
    /\ Len(store) > 1

\* C3: while a candidate has an id that is not in previous_questions, the
\* handler never answers with the exhaustion response, whatever the length of
\* previous_questions.
C3_NoExhaustionWhileUnseen ==
    (QuizServed /\ pc = "idle" /\ Exhausted) => CandidateIds \subseteq Asked

\* C4: with an empty candidate set the handler answers with an explicit
\* outcome, not with the failure of an error nobody handled.
C4_EmptyCandidatesAnswered ==
    (QuizServed /\ pc = "idle" /\ CandidateIds = {}) => resp.status # 500

---------------------------------------------------------------------------
(* The properties of the question bank. *)

\* C5: DELETE of an id that no question has answers 404 and leaves the
\* questions as they were; 500 is the answer only when the store fails.
C5_DeleteMissingIs404 ==
    [][\A question_id \in QuestionIds :
          (delete_question(question_id) /\ question_id \notin Ids(store)) =>
              (resp'.status = 404 /\ store' = store)]_vars

MissingOrEmpty(body) == \E f \in Fields : body[f] \in {None, EmptyStr}

\* C6: POST /questions with a field missing or '' answers 400 and inserts
\* nothing.
C6_IncompleteBodyIs400 ==
    [][\A body \in AddBodies :
          (add_new_question(body) /\ MissingOrEmpty(body)) =>
              (resp'.status = 400 /\ store' = store)]_vars

\* The pages GET /questions can list of `rows`, and one more.
PagesOf(rows) == 1..((Len(rows) \div 10) + 2)

\* The ids GET /questions?page=p lists of `rows`.
Listed(rows, p) == Ids(CurrentQuestions(FormatAll(rows), p))

\* C7: a successful POST /questions adds one question, with the created id;
\* DELETE of that id right after it succeeds and echoes the id, no page of
\* GET /questions lists the id any more, every other question is still
\* listed, and total_questions is what it was before the create.
C7_CreateThenDelete ==
    [][/\ \A body \in AddBodies :
            (add_new_question(body) /\ resp'.status = 201) =>
                /\ Len(store') = Len(store) + 1
                /\ resp'.created \notin Ids(store)
                /\ Ids(store') = Ids(store) \cup {resp'.created}
       /\ (/\ req.op = "add_new_question"
           /\ resp.status = 201
           /\ store_ok
           /\ delete_question(resp.created)) =>
                /\ resp'.status = 200
                /\ resp'.deleted = resp.created
                /\ \A p \in PagesOf(store) : resp.created \notin Listed(store', p)
                /\ \A id \in Ids(store) \ {resp.created} :
                        \E p \in PagesOf(store) : id \in Listed(store', p)
                /\ Len(store') = Len(store) - 1]_vars

\* The question created last was deleted and another one is still stored.
C7_Witness ==
    /\ req.op = "delete_question"
    /\ resp.status = 200
    /\ resp.deleted = next_id - 1
    /\ store # <<>>

\* C9: neither listing answers 200 with an empty 'questions' list: a page
\* beyond the range, or of no questions, is 404.
C9_EmptyPageIs404 ==
    (req.op \in {"get_questions", "get_questions_by_category"}
        /\ resp.status = 200) => resp.questions # <<>>

\* term is a case-insensitive substring of text
Contains(text, term) ==
    \E i \in 0..(Len(text) - Len(term)) :
        \A j \in 1..Len(term) : Lower(text[i + j]) = Lower(term[j])

\* The stored questions whose text contains the term.
Matching(term) ==
    {Format(store[i]) : i \in {j \in 1..Len(store) :
        /\ store[j].question # None
        /\ Contains(store[j].question[2], term)}}

\* C10: a search for a non-empty term answers 404 when no stored question's
\* text contains the term as a case-insensitive substring, and else 200 with
\* exactly the questions whose text does.
C10_SearchIsSubstringMatch ==
    (/\ req.op = "search_for_question"
     /\ req.body.searchTerm \notin {None, EmptyStr}) =>
        IF Matching(req.body.searchTerm[2]) = {}
        THEN resp.status = 404
        ELSE /\ resp.status = 200
             /\ Range(resp.questions) = Matching(req.body.searchTerm[2])

---------------------------------------------------------------------------
(* The property of the page slice. *)

\* The rows the listing of the request slices: all rows, or the rows of the
\* category.
Listable ==
    IF req.op = "get_questions" THEN store
    ELSE SelectSeq(store, LAMBDA q : q.category = Num(req.id))

SliceLength(n, p) == Min(10, Max(0, n - (p - 1) * 10))

\* The response lists exactly the slice of `rows` at offset (p-1)*10.
ListsSlice(rows, p) ==
    /\ Len(resp.questions) = SliceLength(Len(rows), p)
    /\ \A i \in 1..Len(resp.questions) :
          resp.questions[i] = Format(rows[(p - 1) * 10 + i])

\* C8: for a page p >= 1 of n questions the slice of get_questions and of
\* get_questions_by_category starts at offset (p-1)*10 in store order and has
\* min(10, max(0, n-(p-1)*10)) questions (get_questions answers 404 instead
\* of listing a slice of none).
C8_PageSlice ==
    (req.op \in {"get_questions", "get_questions_by_category"} /\ req.page >= 1) =>
        /\ resp.status = 200 => ListsSlice(Listable, req.page)
        /\ (req.op = "get_questions" /\ resp.status = 404) =>
                SliceLength(Len(Listable), req.page) = 0
        /\ resp.status \in {200, 404}

\* The third page of 21 questions lists the one question that is left.
C8_Witness ==
    /\ req.op = "get_questions"
    /\ req.page = 3
    /\ resp.status = 200
    /\ Len(resp.questions) = 1
    /\ Len(store) > 20

====
